---- MODULE Spec2Model ----
(***************************************************************************)
(* A model of generate_blog_posts.py: the CSV feed -> post files ->        *)
(* filter template pipeline.                                               *)
(*                                                                         *)
(* A Python str is a sequence of symbols.  A symbol is one character, or   *)
(* one token standing for a text whose inside the program never looks at   *)
(* character by character (an HTML entity, an ISO date-time).              *)
(***************************************************************************)
EXTENDS Integers, Sequences, FiniteSets, TLC

(***************************************************************************)
(* Bounds of the model.                                                    *)
(***************************************************************************)
MaxRows == 2        \* rows in one fetched feed
MaxDates == 2       \* positional dates on one command line
MaxOffset == 1      \* |--offset-days|
MaxNow == 2         \* last clock value (one tick is one calendar day)
MaxTitle == 3       \* characters of a short title given to slugify

(***************************************************************************)
(* Values outside the strings.                                             *)
(***************************************************************************)
None == <<"None">>                          \* Python None where a str is expected
ValueError == [error |-> "ValueError"]      \* datetime.fromisoformat raising
ValidationError == [error |-> "ValidationError"]    \* BlogPostItem(**row_data) raising
NoPath == <<>>                              \* no file path

(***************************************************************************)
(* Characters.                                                             *)
(***************************************************************************)
LowerSeq == <<"a", "b", "c", "d", "e", "f", "g", "h", "i", "j", "k", "l", "m",
             "n", "o", "p", "q", "r", "s", "t", "u", "v", "w", "x", "y", "z">>
UpperSeq == <<"A", "B", "C", "D", "E", "F", "G", "H", "I", "J", "K", "L", "M",
             "N", "O", "P", "Q", "R", "S", "T", "U", "V", "W", "X", "Y", "Z">>
Range(f) == {f[i] : i \in DOMAIN f}
Lowers == Range(LowerSeq)
Uppers == Range(UpperSeq)
Digits == {"0", "1", "2"}
Whitespace == {" "}

IsSpace(c) == c \in Whitespace

\* str.lower and str.upper, one character
LowerChar(c) ==
    IF c \in Uppers THEN LowerSeq[CHOOSE i \in DOMAIN UpperSeq : UpperSeq[i] = c] ELSE c
UpperChar(c) ==
    IF c \in Lowers THEN UpperSeq[CHOOSE i \in DOMAIN LowerSeq : LowerSeq[i] = c] ELSE c

Lower(s) == [i \in 1..Len(s) |-> LowerChar(s[i])]

\* str.title(): a letter after a non-letter is upper case, every other letter lower case
TitleCase(s) ==
    [i \in 1..Len(s) |->
        IF i = 1 \/ s[i - 1] \notin Lowers \cup Uppers THEN UpperChar(s[i]) ELSE LowerChar(s[i])]

\* str.replace(old, new) for one-character old and new
ReplaceChar(s, old, new) == [i \in 1..Len(s) |-> IF s[i] = old THEN new ELSE s[i]]

\* the characters in code point order, for sorted()
CodeOrder == <<" ", "!", "\"", "$", ",", "-", ".", "0", "1", "2", ":", "<", ">">> \o UpperSeq
             \o <<"\\", "_">> \o LowerSeq \o <<"{", "}", "U+4E2D">>
Code(c) == CHOOSE i \in DOMAIN CodeOrder : CodeOrder[i] = c

\* s < t for two str
RECURSIVE StrLess(_, _)
StrLess(s, t) ==
    IF t = <<>> THEN FALSE
    ELSE IF s = <<>> THEN TRUE
    ELSE IF Head(s) = Head(t) THEN StrLess(Tail(s), Tail(t))
    ELSE Code(Head(s)) < Code(Head(t))

\* sorted(S) for a set of str
RECURSIVE Sorted(_)
Sorted(S) ==
    IF S = {} THEN <<>>
    ELSE LET m == CHOOSE x \in S : \A y \in S \ {x} : StrLess(x, y)
         IN <<m>> \o Sorted(S \ {m})

RECURSIVE LStrip(_)
LStrip(s) == IF s # <<>> /\ IsSpace(Head(s)) THEN LStrip(Tail(s)) ELSE s

RECURSIVE RStrip(_)
RStrip(s) ==
    IF s # <<>> /\ IsSpace(s[Len(s)]) THEN RStrip(SubSeq(s, 1, Len(s) - 1)) ELSE s

\* str.strip()
Strip(s) == RStrip(LStrip(s))

\* s[:n]
Prefix(s, n) == SubSeq(s, 1, IF Len(s) < n THEN Len(s) ELSE n)

\* the characters of s that are in keep, in order: re.sub(r'[^...]', '', s)
Filter(s, keep) == SelectSeq(s, LAMBDA c : c \in keep)

\* index of the first '>' of s at position >= i, 0 when there is none
FirstGt(s, i) ==
    IF \E q \in i..Len(s) : s[q] = ">"
    THEN CHOOSE q \in i..Len(s) : s[q] = ">" /\ \A r \in i..(q - 1) : s[r] # ">"
    ELSE 0

\* position i of s is in a match of <[^>]+>: from a '<' to the first '>' after it,
\* with a character between the two
InTag(s, i) ==
    \E p \in 1..i :
        /\ s[p] = "<"
        /\ FirstGt(s, p + 1) >= p + 2
        /\ i <= FirstGt(s, p + 1)

\* re.sub(r'<[^>]+>', '', s)
RemoveTags(s) ==
    LET kept == SelectSeq([i \in 1..Len(s) |-> i], LAMBDA i : ~InTag(s, i))
    IN [k \in 1..Len(kept) |-> s[kept[k]]]

\* re.sub(r'[...]+', rep, s): every maximal run of characters of run becomes rep
CollapseRuns(s, run, rep) ==
    LET kept == SelectSeq([i \in 1..Len(s) |-> i],
                          LAMBDA i : s[i] \notin run \/ i = Len(s) \/ s[i + 1] \notin run)
    IN [k \in 1..Len(kept) |-> IF s[kept[k]] \in run THEN rep ELSE s[kept[k]]]

\* str.replace('"', '\\"')
RECURSIVE EscapeQuotes(_)
EscapeQuotes(s) ==
    IF s = <<>> THEN <<>>
    ELSE (IF Head(s) = "\"" THEN <<"\\", "\"">> ELSE <<Head(s)>>) \o EscapeQuotes(Tail(s))

\* html.unescape
Unescape(s) ==
    [i \in 1..Len(s) |-> CASE s[i] = "&lt;" -> "<"
                           [] s[i] = "&gt;" -> ">"
                           [] OTHER -> s[i]]

SlugMax == 75
DescriptionMax == 150

\* a letter outside ASCII, without case: the CJK ideograph U+4E2D
Ideograph == "U+4E2D"

\* \w of re on str: the alphanumeric characters of Unicode and the underscore
WordChars == Lowers \cup Uppers \cup Digits \cup {"_", Ideograph}

slugify(text) ==
    Prefix(CollapseRuns(Lower(Strip(Filter(RemoveTags(text), WordChars \cup Whitespace \cup {"-"}))),
                        Whitespace \cup {"-"}, "-"),
           SlugMax)

clean_html_content(content) ==
    IF content = <<>> THEN <<>>
    ELSE Strip(CollapseRuns(RemoveTags(Unescape(content)), Whitespace, " "))

(***************************************************************************)
(* Dates.  One clock tick is one calendar day; a datetime is its tick.     *)
(* An ISO date-time text is one symbol.                                    *)
(***************************************************************************)
IsoPast == "2024-08-30T10:00:00Z"
IsoSoon == "2024-09-01T10:00:00Z"

\* datetime.fromisoformat(s.replace('Z', '+00:00')).replace(tzinfo=None)
fromisoformat(s) ==
    IF s = <<IsoPast>> THEN [tick |-> 0]
    ELSE IF s = <<IsoSoon>> THEN [tick |-> 2]
    ELSE ValueError

\* strftime('%Y-%m-%d') of a datetime: its calendar day
DateStr(t) == t

(***************************************************************************)
(* BlogPostItem: a CSV row (a record of the columns, None for a column     *)
(* the row or the header lacks; extra: the row has more fields than the    *)
(* header, which csv.DictReader files under the key None) to an item, or   *)
(* ValidationError.                                                        *)
(***************************************************************************)
\* a variant of required_fields_not_empty without the strip() test
required_fields_no_strip(v) == v # None /\ v # <<>>

\* Field(..., min_length=1) and required_fields_not_empty
required_fields_not_empty(v) == v # None /\ v # <<>> /\ Strip(v) # <<>>

\* a variant of optional_fields_cleanup that returns the value as supplied
optional_fields_no_strip(v) == IF v = None \/ v = <<>> THEN <<>> ELSE v

optional_fields_cleanup(v) == IF v = None \/ v = <<>> THEN <<>> ELSE Strip(v)

BlogPostItem(row) ==
    IF \/ row.extra
       \/ ~required_fields_not_empty(row.Title)
       \/ ~required_fields_not_empty(row.Link)
       \/ ~required_fields_not_empty(row.PublishedDate)
    THEN ValidationError
    ELSE [title |-> Strip(row.Title),
          link |-> Strip(row.Link),
          published_date |-> Strip(row.PublishedDate),
          summary |-> optional_fields_cleanup(row.Summary),
          ai_category |-> optional_fields_cleanup(row.AICategory),
          source_name |-> optional_fields_cleanup(row.SourceName),
          source_url |-> optional_fields_cleanup(row.SourceURL),
          author |-> optional_fields_cleanup(row.Author)]

\* a variant of is_valid_to_save that asks for one of the two fields only
is_valid_to_save_either(item) == Strip(item.ai_category) # <<>> \/ Strip(item.summary) # <<>>

is_valid_to_save(item) == Strip(item.ai_category) # <<>> /\ Strip(item.summary) # <<>>

(***************************************************************************)
(* parse_csv_to_objects.  csv_data is None (NoneData), a text without a CSV record    *)
(* (the empty or a whitespace-only text), a text csv.DictReader raises     *)
(* on, or a CSV document: the rows under its header line.  Each item       *)
(* carries row_num, its row's position in the document.                    *)
(***************************************************************************)
NoneData == [kind |-> "None"]
EmptyText == [kind |-> "text", text |-> <<>>]
BlankText == [kind |-> "text", text |-> <<" ">>]
BadCsv == [kind |-> "badcsv"]
Csv(rows) == [kind |-> "csv", rows |-> rows]

\* not csv_data or not csv_data.strip()
NoData(csv_data) ==
    \/ csv_data = NoneData
    \/ csv_data.kind = "text" /\ Strip(csv_data.text) = <<>>

\* a variant of ParseRows that leaves the loop at the first invalid row
RECURSIVE ParseRowsBreak(_, _)
ParseRowsBreak(rows, row_num) ==
    IF row_num > Len(rows) THEN <<>>
    ELSE IF BlogPostItem(rows[row_num]) = ValidationError
         THEN <<>>
         ELSE <<[item |-> BlogPostItem(rows[row_num]), row_num |-> row_num]>>
              \o ParseRowsBreak(rows, row_num + 1)

RECURSIVE ParseRows(_, _)
ParseRows(rows, row_num) ==
    IF row_num > Len(rows) THEN <<>>
    ELSE IF BlogPostItem(rows[row_num]) = ValidationError
         THEN ParseRows(rows, row_num + 1)
         ELSE <<[item |-> BlogPostItem(rows[row_num]), row_num |-> row_num]>>
              \o ParseRows(rows, row_num + 1)

parse_csv_to_objects(csv_data) ==
    IF NoData(csv_data) THEN <<>>
    ELSE IF csv_data.kind = "csv" THEN ParseRows(csv_data.rows, 1)
    ELSE <<>>

(***************************************************************************)
(* create_blog_post on the posts directory: posts maps the path            *)
(* <<date_str, slug>> of every post file to its content, dirs is the set   *)
(* of date directories.  result is "created" (returns True), "exists" or   *)
(* "invalid" (the two SKIP returns, False) or "error" (raises).            *)
(***************************************************************************)
General == <<"g", "e", "n", "e", "r", "a", "l">>
Unknown == <<"U", "n", "k", "n", "o", "w", "n">>
Ellipsis == <<"...">>

\* the source tag of create_blog_post: lines 305-317
SourceTags(source_name) ==
    IF Strip(source_name) = <<>> THEN <<>>
    ELSE CollapseRuns(Lower(Strip(Filter(Strip(source_name),
                                         WordChars \cup Whitespace \cup {"-"}))),
                      Whitespace \cup {"-"}, "-")

format_markdown_content(item) ==
    [summary |-> clean_html_content(item.summary),
     source_name |-> item.source_name,
     source_url |-> item.source_url,
     author |-> IF item.author = <<>> THEN Unknown ELSE item.author,
     category |-> item.ai_category]

\* a variant of PubDate without the clamp
PubDateAsPublished(item, clock) == fromisoformat(item.published_date).tick

\* pub_date after the clamp to datetime.now()
PubDate(item, clock) ==
    IF fromisoformat(item.published_date).tick > clock THEN clock
    ELSE fromisoformat(item.published_date).tick

\* the path of the item's post file
FilePath(item, clock) == <<DateStr(PubDate(item, clock)), slugify(item.title)>>

\* a variant of FileContent whose link line holds the Source URL
FileContentSourceLink(item, clock) ==
    [title |-> EscapeQuotes(item.title),
     slug |-> slugify(item.title),
     date |-> PubDate(item, clock),
     tags |-> SourceTags(item.source_name),
     category |-> IF item.ai_category # <<>> THEN Lower(item.ai_category) ELSE General,
     link |-> item.source_url,
     description |-> EscapeQuotes(Prefix(clean_html_content(item.summary), DescriptionMax)
                                  \o Ellipsis),
     type |-> "text",
     body |-> format_markdown_content(item)]

\* metadata + content, as written to the file
FileContent(item, clock) ==
    [title |-> EscapeQuotes(item.title),
     slug |-> slugify(item.title),
     date |-> PubDate(item, clock),
     tags |-> SourceTags(item.source_name),
     category |-> IF item.ai_category # <<>> THEN Lower(item.ai_category) ELSE General,
     link |-> item.link,
     description |-> EscapeQuotes(Prefix(clean_html_content(item.summary), DescriptionMax)
                                  \o Ellipsis),
     type |-> "text",
     body |-> format_markdown_content(item)]

\* a variant of create_blog_post without the filepath.exists() test
create_blog_post_overwrites(item, fs, clock) ==
    IF fromisoformat(item.published_date) = ValueError
    THEN [posts |-> fs.posts, dirs |-> fs.dirs, result |-> "error", path |-> NoPath]
    ELSE IF Strip(item.ai_category) = <<>> \/ Strip(item.summary) = <<>>
    THEN [posts |-> fs.posts, dirs |-> fs.dirs \cup {FilePath(item, clock)[1]},
          result |-> "invalid", path |-> FilePath(item, clock)]
    ELSE [posts |-> [f \in DOMAIN fs.posts \cup {FilePath(item, clock)} |->
                        IF f = FilePath(item, clock) THEN FileContent(item, clock)
                        ELSE fs.posts[f]],
          dirs |-> fs.dirs \cup {FilePath(item, clock)[1]},
          result |-> "created", path |-> FilePath(item, clock)]

\* a variant of create_blog_post that makes the date directory only when it writes
create_blog_post_mkdir_late(item, fs, clock) ==
    IF fromisoformat(item.published_date) = ValueError
    THEN [posts |-> fs.posts, dirs |-> fs.dirs, result |-> "error", path |-> NoPath]
    ELSE LET filepath == FilePath(item, clock)
         IN IF filepath \in DOMAIN fs.posts
            THEN [posts |-> fs.posts, dirs |-> fs.dirs, result |-> "exists", path |-> filepath]
            ELSE IF Strip(item.ai_category) = <<>> \/ Strip(item.summary) = <<>>
            THEN [posts |-> fs.posts, dirs |-> fs.dirs, result |-> "invalid", path |-> filepath]
            ELSE [posts |-> (filepath :> FileContent(item, clock)) @@ fs.posts,
                  dirs |-> fs.dirs \cup {filepath[1]}, result |-> "created", path |-> filepath]

create_blog_post(item, fs, clock) ==
    IF fromisoformat(item.published_date) = ValueError
    THEN [posts |-> fs.posts, dirs |-> fs.dirs, result |-> "error", path |-> NoPath]
    ELSE LET filepath == FilePath(item, clock)
             made == fs.dirs \cup {filepath[1]}
         IN IF filepath \in DOMAIN fs.posts
            THEN [posts |-> fs.posts, dirs |-> made, result |-> "exists", path |-> filepath]
            ELSE IF Strip(item.ai_category) = <<>> \/ Strip(item.summary) = <<>>
            THEN [posts |-> fs.posts, dirs |-> made, result |-> "invalid", path |-> filepath]
            ELSE [posts |-> (filepath :> FileContent(item, clock)) @@ fs.posts,
                  dirs |-> made, result |-> "created", path |-> filepath]

(***************************************************************************)
(* save_items_to_files: the loop over items[i..], from the directory fs    *)
(* and the counts so far.  log has one line per item: what became of it    *)
(* (the verbose output), with the item's row_num and file path.            *)
(***************************************************************************)
\* a variant of SaveFrom in which an item that raises ends the loop
RECURSIVE SaveFromStopsOnError(_, _, _, _)
SaveFromStopsOnError(items, i, acc, clock) ==
    IF i > Len(items) THEN acc
    ELSE IF ~is_valid_to_save(items[i].item)
    THEN SaveFromStopsOnError(items, i + 1,
                  [acc EXCEPT !.processed_count = @ + 1,
                              !.log = Append(@, [row_num |-> items[i].row_num,
                                                 result |-> "invalid", path |-> NoPath])],
                  clock)
    ELSE LET r == create_blog_post(items[i].item, acc, clock)
         IN IF r.result = "error"
            THEN [acc EXCEPT !.processed_count = @ + 1,
                             !.log = Append(@, [row_num |-> items[i].row_num,
                                                result |-> "error", path |-> NoPath])]
            ELSE SaveFromStopsOnError(items, i + 1,
                     [posts |-> r.posts,
                      dirs |-> r.dirs,
                      created_count |-> acc.created_count + (IF r.result = "created" THEN 1 ELSE 0),
                      processed_count |-> acc.processed_count + 1,
                      log |-> Append(acc.log, [row_num |-> items[i].row_num,
                                               result |-> r.result, path |-> r.path])],
                     clock)

\* a variant of SaveFrom that counts every call that returns as a created post
RECURSIVE SaveFromCountsSkips(_, _, _, _)
SaveFromCountsSkips(items, i, acc, clock) ==
    IF i > Len(items) THEN acc
    ELSE IF ~is_valid_to_save(items[i].item)
    THEN SaveFromCountsSkips(items, i + 1,
                  [acc EXCEPT !.processed_count = @ + 1,
                              !.log = Append(@, [row_num |-> items[i].row_num,
                                                 result |-> "invalid", path |-> NoPath])],
                  clock)
    ELSE LET r == create_blog_post(items[i].item, acc, clock)
         IN SaveFromCountsSkips(items, i + 1,
                     [posts |-> r.posts,
                      dirs |-> r.dirs,
                      created_count |-> acc.created_count + (IF r.result # "error" THEN 1 ELSE 0),
                      processed_count |-> acc.processed_count + 1,
                      log |-> Append(acc.log, [row_num |-> items[i].row_num,
                                               result |-> r.result, path |-> r.path])],
                     clock)

\* a variant of SaveFrom that counts an item only after the is_valid_to_save test
RECURSIVE SaveFromSkipsUncounted(_, _, _, _)
SaveFromSkipsUncounted(items, i, acc, clock) ==
    IF i > Len(items) THEN acc
    ELSE IF ~is_valid_to_save(items[i].item)
    THEN SaveFromSkipsUncounted(items, i + 1,
                  [acc EXCEPT !.log = Append(@, [row_num |-> items[i].row_num,
                                                 result |-> "invalid", path |-> NoPath])],
                  clock)
    ELSE LET r == create_blog_post(items[i].item, acc, clock)
         IN SaveFromSkipsUncounted(items, i + 1,
                     [posts |-> r.posts,
                      dirs |-> r.dirs,
                      created_count |-> acc.created_count + (IF r.result = "created" THEN 1 ELSE 0),
                      processed_count |-> acc.processed_count + 1,
                      log |-> Append(acc.log, [row_num |-> items[i].row_num,
                                               result |-> r.result, path |-> r.path])],
                     clock)

\* a variant of SaveFrom that counts an item only when create_blog_post has returned
RECURSIVE SaveFromErrorUncounted(_, _, _, _)
SaveFromErrorUncounted(items, i, acc, clock) ==
    IF i > Len(items) THEN acc
    ELSE IF ~is_valid_to_save(items[i].item)
    THEN SaveFromErrorUncounted(items, i + 1,
                  [acc EXCEPT !.processed_count = @ + 1,
                              !.log = Append(@, [row_num |-> items[i].row_num,
                                                 result |-> "invalid", path |-> NoPath])],
                  clock)
    ELSE LET r == create_blog_post(items[i].item, acc, clock)
         IN SaveFromErrorUncounted(items, i + 1,
                     [posts |-> r.posts,
                      dirs |-> r.dirs,
                      created_count |-> acc.created_count + (IF r.result = "created" THEN 1 ELSE 0),
                      processed_count |-> acc.processed_count
                                            + (IF r.result = "error" THEN 0 ELSE 1),
                      log |-> Append(acc.log, [row_num |-> items[i].row_num,
                                               result |-> r.result, path |-> r.path])],
                     clock)

RECURSIVE SaveFrom(_, _, _, _)
SaveFrom(items, i, acc, clock) ==
    IF i > Len(items) THEN acc
    ELSE IF ~is_valid_to_save(items[i].item)
    THEN SaveFrom(items, i + 1,
                  [acc EXCEPT !.processed_count = @ + 1,
                              !.log = Append(@, [row_num |-> items[i].row_num,
                                                 result |-> "invalid", path |-> NoPath])],
                  clock)
    ELSE LET r == create_blog_post(items[i].item, acc, clock)
         IN SaveFrom(items, i + 1,
                     [posts |-> r.posts,
                      dirs |-> r.dirs,
                      created_count |-> acc.created_count + (IF r.result = "created" THEN 1 ELSE 0),
                      processed_count |-> acc.processed_count + 1,
                      log |-> Append(acc.log, [row_num |-> items[i].row_num,
                                               result |-> r.result, path |-> r.path])],
                     clock)

save_items_to_files(items, fs, clock) ==
    SaveFrom(items, 1,
             [posts |-> fs.posts, dirs |-> fs.dirs,
              created_count |-> 0, processed_count |-> 0, log |-> <<>>],
             clock)

(***************************************************************************)
(* process_csv_for_date: response is what fetch_csv_data does for the      *)
(* URL: "raise", or the text it returns.                                   *)
(***************************************************************************)
Raise == [kind |-> "raise"]

process_csv_for_date(response, fs, clock) ==
    IF response = Raise \/ NoData(response) \/ parse_csv_to_objects(response) = <<>>
    THEN [posts |-> fs.posts, dirs |-> fs.dirs,
          created_count |-> 0, processed_count |-> 0, log |-> <<>>]
    ELSE save_items_to_files(parse_csv_to_objects(response), fs, clock)

(***************************************************************************)
(* The corpus scan.  HeaderLines is the comment block create_blog_post     *)
(* writes, one line of text per '.. key: value' line, after its '.. ': the *)
(* key (one symbol), ':', ' ' and the value.  No line holds a line break:  *)
(* csv_data.splitlines() leaves none in a field.                           *)
(***************************************************************************)
HeaderLines(content) ==
    <<<<"title", ":", " ">> \o content.title,
      <<"slug", ":", " ">> \o content.slug,
      <<"tags", ":", " ">> \o content.tags,
      <<"category", ":", " ">> \o content.category,
      <<"link", ":", " ">> \o content.link,
      <<"description", ":", " ">> \o content.description,
      <<"type", ":", " ", content.type>>>>

\* the index of the first ':' of the line
FirstColon(line) ==
    CHOOSE i \in DOMAIN line : line[i] = ":" /\ \A j \in 1..(i - 1) : line[j] # ":"

\* a variant of SplitColon that splits at the last ':' of the line
SplitLastColon(line) ==
    LET last == CHOOSE i \in DOMAIN line : line[i] = ":" /\ \A j \in (i + 1)..Len(line) : line[j] # ":"
    IN [key |-> Strip(SubSeq(line, 1, last - 1)),
        value |-> Strip(SubSeq(line, last + 1, Len(line)))]

\* line.split(':', 1) of a line with a ':'
SplitColon(line) ==
    [key |-> Strip(SubSeq(line, 1, FirstColon(line) - 1)),
     value |-> Strip(SubSeq(line, FirstColon(line) + 1, Len(line)))]

\* the loop over the lines, metadata[key.strip()] = value.strip() for every line with
\* a ':': a function from the keys (str) to the values; of two lines with one key
\* the later one stays
RECURSIVE ParseLines(_)
ParseLines(lines) ==
    IF lines = <<>> THEN <<>>
    ELSE ParseLines(Tail(lines))
            @@ (IF \E j \in DOMAIN Head(lines) : Head(lines)[j] = ":"
                THEN SplitColon(Head(lines)).key :> SplitColon(Head(lines)).value
                ELSE <<>>)

\* the dict parse_post_metadata returns for a file with this content
parse_post_metadata(content) == ParseLines(HeaderLines(content))

\* s.split(',')[0]
RECURSIVE FirstField(_)
FirstField(s) ==
    IF s = <<>> \/ Head(s) = "," THEN <<>> ELSE <<Head(s)>> \o FirstField(Tail(s))

scan_existing_posts(files) ==
    LET metadata == {parse_post_metadata(files[f]) : f \in DOMAIN files}
    IN [categories |->
            {Strip(m[<<"category">>]) : m \in {n \in metadata : <<"category">> \in DOMAIN n}}
                \ {<<>>},
        sources |->
            {Strip(FirstField(m[<<"tags">>])) : m \in {n \in metadata : <<"tags">> \in DOMAIN n}}
                \ {<<>>}]

(***************************************************************************)
(* The filter buttons and the template file.  The text of the template is  *)
(* a sequence of symbols: the characters of the placeholders and of the    *)
(* category and source names, and one symbol for each fixed piece of       *)
(* markup.                                                                 *)
(***************************************************************************)
Event == <<"e", "v", "e", "n", "t">>
CatPrefix == <<"c", "a", "t", "_">>

\* category_mapping, two of its entries
CategoryDisplay(category) ==
    IF category = General THEN <<"G", "e", "n", "e", "r", "a", "l">>
    ELSE IF category = Event THEN <<"E", "v", "e", "n", "t">>
    ELSE TitleCase(ReplaceChar(category, "_", " "))

\* the fixed pieces of a button line
CategoryOpen == "                <a href=\"${abs_link('categories/"
CategoryMid == "/')}\" class=\"btn btn-outline-primary btn-sm\">"
SourceOpen == "                <a href=\"${abs_link('sources/"
SourceMid == "/')}\" class=\"btn btn-outline-success btn-sm\">"
AnchorEnd == "</a>"
Newline == "\n"

\* '\n'.join(buttons)
RECURSIVE Join(_)
Join(buttons) ==
    IF buttons = <<>> THEN <<>>
    ELSE IF Len(buttons) = 1 THEN buttons[1]
    ELSE buttons[1] \o <<Newline>> \o Join(Tail(buttons))

\* the button line of one category: lines 157-164
CategoryButton(category) ==
    <<CategoryOpen>> \o CatPrefix \o category \o <<CategoryMid>>
        \o CategoryDisplay(category) \o <<AnchorEnd>>

\* a variant of generate_category_buttons that leaves out the categories that are not
\* in category_mapping
generate_category_buttons_mapped_only(cats) ==
    LET sorted == Sorted(cats \cap {General, Event})
    IN Join([i \in 1..Len(sorted) |-> CategoryButton(sorted[i])])

generate_category_buttons(cats) ==
    LET sorted == Sorted(cats)
    IN Join([i \in 1..Len(sorted) |-> CategoryButton(sorted[i])])

AwsBlog == <<"a", "w", "s", "-", "b", "l", "o", "g">>

\* source_mapping.get(source, source.replace('-', ' ').title()), one of its entries
SourceDisplay(source) ==
    IF source = AwsBlog THEN <<"A", "W", "S", " ", "B", "l", "o", "g">>
    ELSE TitleCase(ReplaceChar(source, "-", " "))

\* the button line of one source: lines 231-232
SourceButton(source) ==
    <<SourceOpen>> \o source \o <<SourceMid>> \o SourceDisplay(source) \o <<AnchorEnd>>

generate_source_buttons(srcs) ==
    LET sorted == Sorted(srcs)
    IN Join([i \in 1..Len(sorted) |-> SourceButton(sorted[i])])

DYNAMIC_CATEGORIES ==
    <<"$", "{", "D", "Y", "N", "A", "M", "I", "C", "_",
      "C", "A", "T", "E", "G", "O", "R", "I", "E", "S", "}">>
DYNAMIC_SOURCES ==
    <<"$", "{", "D", "Y", "N", "A", "M", "I", "C", "_", "S", "O", "U", "R", "C", "E", "S", "}">>

NoTemplate == [exists |-> FALSE, content |-> <<>>]
FreshTemplate ==
    [exists |-> TRUE,
     content |-> <<"<nav>">> \o DYNAMIC_CATEGORIES \o <<"<hr>">> \o DYNAMIC_SOURCES
                    \o <<"</nav>">>]

\* old occurs in s at position i
OccursAt(s, old, i) ==
    /\ i + Len(old) - 1 <= Len(s)
    /\ s[i] = old[1]
    /\ SubSeq(s, i, i + Len(old) - 1) = old

\* s.replace(old, new): the occurrences from left to right, none overlapping
RECURSIVE Replace(_, _, _)
Replace(s, old, new) ==
    IF \E i \in DOMAIN s : OccursAt(s, old, i)
    THEN LET first == CHOOSE i \in DOMAIN s :
                        OccursAt(s, old, i) /\ \A j \in 1..(i - 1) : ~OccursAt(s, old, j)
         IN SubSeq(s, 1, first - 1) \o new
                \o Replace(SubSeq(s, first + Len(old), Len(s)), old, new)
    ELSE s

\* a variant of update_filters_template without the template_file.exists() test:
\* a missing file reads as empty and open(..., 'w') makes it
update_filters_template_creates(tmpl, cats, srcs) ==
    [exists |-> TRUE,
     content |-> Replace(Replace(tmpl.content, DYNAMIC_CATEGORIES,
                                 generate_category_buttons(cats)),
                         DYNAMIC_SOURCES, generate_source_buttons(srcs))]

update_filters_template(tmpl, cats, srcs) ==
    IF ~tmpl.exists THEN tmpl
    ELSE [exists |-> TRUE,
          content |-> Replace(Replace(tmpl.content, DYNAMIC_CATEGORIES,
                                      generate_category_buttons(cats)),
                              DYNAMIC_SOURCES, generate_source_buttons(srcs))]

(***************************************************************************)
(* What the environment supplies: the rows a feed may hold, the texts a    *)
(* fetch may return, the command lines.                                    *)
(***************************************************************************)
Row(title, link, date, summary, category, source, extra) ==
    [Title |-> title, Link |-> link, PublishedDate |-> date, Summary |-> summary,
     AICategory |-> category, SourceName |-> source, SourceURL |-> <<"u">>,
     Author |-> <<>>, extra |-> extra]

RowOk == Row(<<"A", "b">>, <<"x">>, <<IsoPast>>, <<"v">>, <<"E", "v", "e", "n", "t">>,
             <<"S", " ", "b">>, FALSE)
\* another article whose title has the slug of RowOk
RowSameSlug == Row(<<"a", "b", "!">>, <<"h", ":", "y">>, <<IsoPast>>, <<"w">>, <<"n", "_", "c">>,
                   <<>>, FALSE)
\* dated after the first clock value
RowSoon == Row(<<"c">>, <<"x">>, <<IsoSoon>>, <<"v">>, <<"A", ":", "b">>, <<"S", " ", "b">>,
               FALSE)
RowBlankSummary == Row(<<"e">>, <<"x">>, <<IsoPast>>, <<" ">>, General, <<>>, FALSE)
RowBlankTitle == Row(<<" ">>, <<"x">>, <<IsoPast>>, <<"v">>, General, <<>>, FALSE)
RowBadDate == Row(<<"h">>, <<"x">>, <<"x">>, <<"v">>, General, <<>>, FALSE)
RowExtra == Row(<<"i">>, <<"x">>, <<IsoPast>>, <<"v">>, General, <<>>, TRUE)

RowPool == {RowOk, RowSameSlug, RowSoon, RowBlankSummary, RowBlankTitle, RowBadDate, RowExtra}

\* a valid row with one of its columns missing (None), empty or whitespace-only
RowBase == Row(<<"k">>, <<"x">>, <<IsoPast>>, <<"v">>, General, <<>>, FALSE)
OneFieldOff ==
    {[RowBase EXCEPT ![f] = v] :
        f \in {"Title", "Link", "PublishedDate", "Summary", "AICategory"},
        v \in {None, <<>>, <<" ">>}}

SeqsUpTo(S, n) == UNION {[1..k -> S] : k \in 0..n}

\* what fetch_csv_data may do: raise, or return a text
Responses ==
    {Raise, EmptyText, BlankText, BadCsv}
    \cup {Csv(rows) : rows \in SeqsUpTo(RowPool, MaxRows)}
    \cup {Csv(<<row>>) : row \in OneFieldOff}

\* a command-line date: a 'YYYY-MM-DD' text (its day), or a text strptime raises on
Day(n) == [day |-> n]
BadDate == [text |-> "30/08/2024"]
Today == [url |-> "daily-items.csv"]
IsDateFormat(d) == d # BadDate
NoArg == [none |-> TRUE]

\* a variant of DateRange whose loops run offset_days times
DateRangeOneShort(start_dt, offset_days) ==
    IF offset_days >= 0
    THEN [i \in 1..offset_days |-> Day(start_dt + (i - 1))]
    ELSE [i \in 1..(-offset_days) |-> Day(start_dt - (-offset_days - (i - 1)))]

\* lines 545-556: the dates of the range
DateRange(start_dt, offset_days) ==
    IF offset_days >= 0
    THEN [i \in 1..(offset_days + 1) |-> Day(start_dt + (i - 1))]
    ELSE [i \in 1..(-offset_days + 1) |-> Day(start_dt - (-offset_days - (i - 1)))]

(***************************************************************************)
(* The state: the files, the clock, and one invocation of generate.        *)
(***************************************************************************)
VARIABLES
    posts,              \* the post files: path -> content
    dirs,               \* the date directories of posts_dir
    template,           \* templates/filters_nav.tmpl
    now,                \* datetime.now()
    pc,                 \* where generate is: "idle", "loop", "returned", "filters", "done", "exit"
    dates_to_process,   \* the dates the loop has still to go through
    total_created,
    total_processed,
    scanned,            \* categories, sources of scan_existing_posts
    exit_code,
    call,               \* the last process_csv_for_date of this invocation
    origin,             \* history: for each post file, the row it was written from
    pre_run,            \* history: the post files that existed when this invocation started
    total_existing,     \* history: the items of this invocation skipped as 'already exists'
    given,              \* history: the dates this invocation was to go through
    trail,              \* history: per date gone through, a fetch or the ERROR message
    fn,                 \* the function called on its own, "none" when there is none
    arg,                \* its argument
    ret                 \* what it returned

vars == <<posts, dirs, template, now, pc, dates_to_process, total_created,
          total_processed, scanned, exit_code, call, origin, pre_run, total_existing,
          given, trail, fn, arg, ret>>

NoCall == [fetched |-> FALSE]
NoScan == [categories |-> {}, sources |-> {}]

Init ==
    /\ posts = <<>>
    /\ dirs = {}
    /\ template \in {FreshTemplate, NoTemplate}
    /\ now = 1
    /\ pc = "idle"
    /\ dates_to_process = <<>>
    /\ total_created = 0
    /\ total_processed = 0
    /\ total_existing = 0
    /\ scanned = NoScan
    /\ exit_code = 0
    /\ call = NoCall
    /\ origin = <<>>
    /\ pre_run = {}
    /\ given = <<>>
    /\ trail = <<>>
    /\ fn = "none"
    /\ arg = <<>>
    /\ ret = <<>>

\* time passes
Tick ==
    /\ pc \in {"idle", "loop"}
    /\ now < MaxNow
    /\ now' = now + 1
    /\ UNCHANGED <<posts, dirs, template, pc, dates_to_process, total_created,
                   total_processed, scanned, exit_code, call, origin, pre_run,
                   total_existing, given, trail, fn, arg, ret>>

\* generate, lines 519-564 and 574-581, 604-607: the arguments to the list of dates
Start(todo) ==
    /\ pc = "idle"
    /\ pc' = "loop"
    /\ dates_to_process' = todo
    /\ pre_run' = DOMAIN posts
    /\ given' = todo
    /\ trail' = <<>>
    /\ UNCHANGED <<posts, dirs, template, now, total_created, total_processed,
                   scanned, exit_code, call, origin, total_existing, fn, arg, ret>>

\* raise typer.Exit(1)
ArgumentError ==
    /\ pc = "idle"
    /\ pc' = "exit"
    /\ exit_code' = 1
    /\ UNCHANGED <<posts, dirs, template, now, dates_to_process, total_created,
                   total_processed, scanned, call, origin, pre_run, total_existing,
                   given, trail, fn, arg, ret>>

generate(dates, start_date, offset_days) ==
    IF offset_days # NoArg
    THEN IF start_date = NoArg THEN Start(DateRange(now, offset_days.n))
         ELSE IF ~IsDateFormat(start_date) THEN ArgumentError
         ELSE Start(DateRange(start_date.day, offset_days.n))
    ELSE IF start_date # NoArg THEN ArgumentError
    ELSE IF dates # <<>> THEN Start(dates)
    ELSE Start(<<Today>>)

\* the command lines: [DATE...], --start-date, --offset-days
\* and one longer list: two days out of calendar order around a text that is no date
DateArgs == SeqsUpTo({Day(0), BadDate}, MaxDates) \cup {<<Day(1), BadDate, Day(0)>>}
StartArgs == {NoArg, Day(0), BadDate}
OffsetArgs == {NoArg} \cup {[n |-> k] : k \in (-MaxOffset)..MaxOffset}

Invoke ==
    \E dates \in DateArgs, start_date \in StartArgs, offset_days \in OffsetArgs :
        generate(dates, start_date, offset_days)

\* the row each post file was written from, after a call with this log
Origins(rows, log, old) ==
    [f \in DOMAIN old \cup {log[i].path : i \in {j \in DOMAIN log : log[j].result = "created"}} |->
        IF f \in DOMAIN old THEN old[f]
        ELSE rows[log[CHOOSE i \in DOMAIN log :
                        /\ log[i].path = f
                        /\ log[i].result = "created"
                        /\ \A j \in 1..(i - 1) :
                                ~(log[j].path = f /\ log[j].result = "created")].row_num]]

\* a variant of Process whose counts go on from those of the dates before
ProcessCarriesCounts(feeds) ==
    /\ pc = "loop"
    /\ dates_to_process # <<>>
    /\ IsDateFormat(Head(dates_to_process))
    /\ \E response \in feeds :
        \E r \in {process_csv_for_date(response, [posts |-> posts, dirs |-> dirs], now)} :
           /\ posts' = r.posts
           /\ dirs' = r.dirs
           /\ call' = [fetched |-> TRUE, date |-> Head(dates_to_process),
                       response |-> response, clock |-> now,
                       before |-> DOMAIN posts,
                       created |-> total_created + r.created_count,
                       processed |-> total_processed + r.processed_count,
                       log |-> r.log]
           /\ origin' = Origins(IF response.kind = "csv" THEN response.rows ELSE <<>>,
                                r.log, origin)
    /\ trail' = Append(trail, [date |-> Head(dates_to_process), what |-> "fetch"])
    /\ pc' = "returned"
    /\ UNCHANGED <<template, now, dates_to_process, total_created, total_processed,
                   scanned, exit_code, pre_run, total_existing, given, fn, arg, ret>>

\* lines 561-562 and 586-588: process_csv_for_date for the date at hand, the URL
\* answering with one of feeds
Process(feeds) ==
    /\ pc = "loop"
    /\ dates_to_process # <<>>
    /\ IsDateFormat(Head(dates_to_process))
    /\ \E response \in feeds :
        \E r \in {process_csv_for_date(response, [posts |-> posts, dirs |-> dirs], now)} :
           /\ posts' = r.posts
           /\ dirs' = r.dirs
           /\ call' = [fetched |-> TRUE, date |-> Head(dates_to_process),
                       response |-> response, clock |-> now,
                       before |-> DOMAIN posts,
                       created |-> r.created_count, processed |-> r.processed_count,
                       log |-> r.log]
           /\ origin' = Origins(IF response.kind = "csv" THEN response.rows ELSE <<>>,
                                r.log, origin)
    /\ trail' = Append(trail, [date |-> Head(dates_to_process), what |-> "fetch"])
    /\ pc' = "returned"
    /\ UNCHANGED <<template, now, dates_to_process, total_created, total_processed,
                   scanned, exit_code, pre_run, total_existing, given, fn, arg, ret>>

ProcessDate == Process(Responses)

\* a variant of Accumulate that ends the loop after a date that yielded nothing
AccumulateStopsOnEmpty ==
    /\ pc = "returned"
    /\ total_created' = total_created + call.created
    /\ total_processed' = total_processed + call.processed
    /\ total_existing' = total_existing
            + Cardinality({k \in DOMAIN call.log : call.log[k].result = "exists"})
    /\ call' = NoCall
    /\ dates_to_process' = IF call.processed = 0 THEN <<>> ELSE Tail(dates_to_process)
    /\ pc' = "loop"
    /\ UNCHANGED <<posts, dirs, template, now, scanned, exit_code, origin, pre_run,
                   given, trail, fn, arg, ret>>

\* lines 563-567 and 589-593: the counts are added up, the loop goes on
Accumulate ==
    /\ pc = "returned"
    /\ total_created' = total_created + call.created
    /\ total_processed' = total_processed + call.processed
    /\ total_existing' = total_existing
            + Cardinality({k \in DOMAIN call.log : call.log[k].result = "exists"})
    /\ call' = NoCall
    /\ dates_to_process' = Tail(dates_to_process)
    /\ pc' = "loop"
    /\ UNCHANGED <<posts, dirs, template, now, scanned, exit_code, origin, pre_run,
                   given, trail, fn, arg, ret>>

\* a variant of InvalidDate that stays at the invalid date
InvalidDateRetries ==
    /\ pc = "loop"
    /\ dates_to_process # <<>>
    /\ ~IsDateFormat(Head(dates_to_process))
    /\ UNCHANGED vars

\* a variant of InvalidDate that leaves the loop (break for continue)
InvalidDateBreaks ==
    /\ pc = "loop"
    /\ dates_to_process # <<>>
    /\ ~IsDateFormat(Head(dates_to_process))
    /\ dates_to_process' = <<>>
    /\ trail' = Append(trail, [date |-> Head(dates_to_process), what |-> "error"])
    /\ UNCHANGED <<posts, dirs, template, now, pc, total_created, total_processed,
                   scanned, exit_code, call, origin, pre_run, total_existing, given,
                   fn, arg, ret>>

\* lines 595-597: a date strptime raises on
InvalidDate ==
    /\ pc = "loop"
    /\ dates_to_process # <<>>
    /\ ~IsDateFormat(Head(dates_to_process))
    /\ dates_to_process' = Tail(dates_to_process)
    /\ trail' = Append(trail, [date |-> Head(dates_to_process), what |-> "error"])
    /\ UNCHANGED <<posts, dirs, template, now, pc, total_created, total_processed,
                   scanned, exit_code, call, origin, pre_run, total_existing, given,
                   fn, arg, ret>>

\* a variant of Scan that reads the corpus as it was before the dates were processed
ScanBeforeProcessing ==
    /\ pc = "loop"
    /\ dates_to_process = <<>>
    /\ scanned' = scan_existing_posts([f \in pre_run |-> posts[f]])
    /\ pc' = "filters"
    /\ UNCHANGED <<posts, dirs, template, now, dates_to_process, total_created,
                   total_processed, exit_code, call, origin, pre_run, total_existing,
                   given, trail, fn, arg, ret>>

\* lines 599-626: the summary, then the corpus scan
Scan ==
    /\ pc = "loop"
    /\ dates_to_process = <<>>
    /\ scanned' = scan_existing_posts(posts)
    /\ pc' = "filters"
    /\ UNCHANGED <<posts, dirs, template, now, dates_to_process, total_created,
                   total_processed, exit_code, call, origin, pre_run, total_existing,
                   given, trail, fn, arg, ret>>

\* a variant of UpdateFilters that calls update_filters_template whatever the scan found
UpdateFiltersAlways ==
    /\ pc = "filters"
    /\ template' = update_filters_template(template, scanned.categories, scanned.sources)
    /\ pc' = "done"
    /\ exit_code' = 0
    /\ UNCHANGED <<posts, dirs, now, dates_to_process, total_created, total_processed,
                   scanned, call, origin, pre_run, total_existing, given, trail, fn,
                   arg, ret>>

\* lines 627-630
UpdateFilters ==
    /\ pc = "filters"
    /\ template' = IF scanned.categories # {} \/ scanned.sources # {}
                   THEN update_filters_template(template, scanned.categories, scanned.sources)
                   ELSE template
    /\ pc' = "done"
    /\ exit_code' = 0
    /\ UNCHANGED <<posts, dirs, now, dates_to_process, total_created, total_processed,
                   scanned, call, origin, pre_run, total_existing, given, trail, fn,
                   arg, ret>>

\* the process ends; the next invocation starts from the files alone
Exit ==
    /\ pc \in {"done", "exit"}
    /\ pc' = "idle"
    /\ dates_to_process' = <<>>
    /\ total_created' = 0
    /\ total_processed' = 0
    /\ total_existing' = 0
    /\ scanned' = NoScan
    /\ exit_code' = 0
    /\ call' = NoCall
    /\ pre_run' = {}
    /\ given' = <<>>
    /\ trail' = <<>>
    /\ UNCHANGED <<posts, dirs, template, now, origin, fn, arg, ret>>

Next ==
    \/ Tick
    \/ Invoke
    \/ ProcessDate
    \/ Accumulate
    \/ InvalidDate
    \/ Scan
    \/ UpdateFilters
    \/ Exit

\* the steps of a running generate: a sequential process takes its next step
GenerateStep(feeds) == Process(feeds) \/ Accumulate \/ InvalidDate \/ Scan \/ UpdateFilters

Spec == Init /\ [][Next]_vars

\* the feeds of the runs checked for termination: a fetch that raises, no data, a
\* feed csv raises on, a row create_blog_post raises on, rows that are written and
\* rows that are skipped
LiveResponses ==
    {Raise, EmptyText, BadCsv, Csv(<<RowBadDate>>), Csv(<<RowOk, RowBlankSummary>>)}

ProcessLive == Process(LiveResponses)

LiveNext ==
    \/ Tick
    \/ Invoke
    \/ ProcessLive
    \/ Accumulate
    \/ InvalidDate
    \/ Scan
    \/ UpdateFilters
    \/ Exit

LiveSpec == Init /\ [][LiveNext]_vars /\ WF_vars(GenerateStep(LiveResponses))

(***************************************************************************)
(* The functions called on their own, as the tests call them: fn is the    *)
(* function, arg its argument, ret what it returned.  The files and the    *)
(* invocation stay as they are.                                            *)
(***************************************************************************)
pipeline == <<posts, dirs, template, now, pc, dates_to_process, total_created,
              total_processed, scanned, exit_code, call, origin, pre_run,
              total_existing, given, trail>>

\* what a field of BlogPostItem(**row_data) may be given: nothing, '', ' ', 'a', ' a b '
FieldValues == {None, <<>>, <<" ">>, <<"a">>, <<" ", "a", " ", "b", " ">>}

\* the keyword arguments of BlogPostItem
FieldRows ==
    {[Title |-> t, Link |-> l, PublishedDate |-> d, Summary |-> s, AICategory |-> s,
      SourceName |-> o, SourceURL |-> o, Author |-> o, extra |-> FALSE] :
        t \in FieldValues, l \in FieldValues, d \in FieldValues,
        s \in FieldValues, o \in FieldValues}

CallBlogPostItem ==
    /\ fn = "none"
    /\ \E row \in FieldRows :
        /\ fn' = "BlogPostItem"
        /\ arg' = row
        /\ ret' = BlogPostItem(row)
    /\ UNCHANGED pipeline

\* items as the tests build them: any str in ai_category and summary
Items ==
    {[title |-> <<"a">>, link |-> <<"x">>, published_date |-> <<IsoPast>>,
      summary |-> s, ai_category |-> c, source_name |-> <<>>, source_url |-> <<>>,
      author |-> <<>>] :
        s \in FieldValues \ {None}, c \in FieldValues \ {None}}

CallIsValidToSave ==
    /\ fn = "none"
    /\ \E item \in Items :
        /\ fn' = "is_valid_to_save"
        /\ arg' = item
        /\ ret' = is_valid_to_save(item)
    /\ UNCHANGED pipeline

\* the characters of the titles slugify is called on
TitleChars == {"a", "B", "1", "_", "-", " ", "<", ">", "!", Ideograph}

\* titles longer than the slug may be
LongTitles ==
    {[i \in 1..(SlugMax + 1) |-> "a"],
     [i \in 1..(SlugMax + 1) |-> IF i = SlugMax THEN " " ELSE "B"]}

Titles == SeqsUpTo(TitleChars, MaxTitle) \cup LongTitles

CallSlugify ==
    /\ fn = "none"
    /\ \E text \in Titles :
        /\ fn' = "slugify"
        /\ arg' = text
        /\ ret' = slugify(text)
    /\ UNCHANGED pipeline

\* the items create_blog_post is called on: dated before the clock starts, after it,
\* or with a text that is no date
DatedItems ==
    {[item EXCEPT !.published_date = d] :
        item \in Items, d \in {<<IsoPast>>, <<IsoSoon>>, <<"x">>}}

\* an empty posts directory
NoFiles == [posts |-> <<>>, dirs |-> {}]

\* the posts directory with the post file of the item, for a call at clock
FileThere(item, clock) ==
    IF fromisoformat(item.published_date) = ValueError THEN NoFiles
    ELSE [posts |-> (FilePath(item, clock) :> FileContent(item, clock)),
          dirs |-> {FilePath(item, clock)[1]}]

CallCreateBlogPost ==
    /\ fn = "none"
    /\ \E item \in DatedItems, clock \in 0..MaxNow :
        \E fs \in {NoFiles, FileThere(item, clock)} :
            /\ fn' = "create_blog_post"
            /\ arg' = [item |-> item, fs |-> fs, clock |-> clock]
            /\ ret' = create_blog_post(item, fs, clock)
    /\ UNCHANGED pipeline

\* the sets update_filters_template is called with: names as create_blog_post writes
\* them, and a name that is the text of a placeholder
CategorySets == SUBSET {General, Event, <<"n", "_", "c">>, DYNAMIC_SOURCES}
SourceSets == SUBSET {<<"s", "-", "b">>, <<"a">>, AwsBlog, DYNAMIC_CATEGORIES}

\* the template files it is called on: none, the one with the placeholders, one that
\* an earlier run has rewritten
Templates ==
    {NoTemplate, FreshTemplate, update_filters_template(FreshTemplate, {Event}, {})}

CallUpdateFiltersTemplate ==
    /\ fn = "none"
    /\ \E tmpl \in Templates, cats \in CategorySets, srcs \in SourceSets :
        /\ fn' = "update_filters_template"
        /\ arg' = [tmpl |-> tmpl, categories |-> cats, sources |-> srcs]
        /\ ret' = update_filters_template(tmpl, cats, srcs)
    /\ UNCHANGED pipeline

CallGenerateCategoryButtons ==
    /\ fn = "none"
    /\ \E cats \in CategorySets :
        /\ fn' = "generate_category_buttons"
        /\ arg' = cats
        /\ ret' = generate_category_buttons(cats)
    /\ UNCHANGED pipeline

CallGenerateSourceButtons ==
    /\ fn = "none"
    /\ \E srcs \in SourceSets :
        /\ fn' = "generate_source_buttons"
        /\ arg' = srcs
        /\ ret' = generate_source_buttons(srcs)
    /\ UNCHANGED pipeline

CallNext ==
    \/ CallBlogPostItem
    \/ CallCreateBlogPost
    \/ CallSlugify
    \/ CallIsValidToSave
    \/ CallUpdateFiltersTemplate
    \/ CallGenerateCategoryButtons
    \/ CallGenerateSourceButtons

CallSpec == Init /\ [][CallNext]_vars

(***************************************************************************)
(* The claims.  In a state with call.fetched, process_csv_for_date has     *)
(* just returned: call.response is what was fetched, call.clock the time,  *)
(* call.before the post files that existed, call.log what became of each   *)
(* item.                                                                   *)
(***************************************************************************)
CallRows == IF call.fetched /\ call.response.kind = "csv" THEN call.response.rows ELSE <<>>

\* C1: idempotent materialization.  After process_csv_for_date has processed a fetched
\* list into the posts directory, processing the same list again, now or at any later
\* clock value, creates no file and leaves the post files as they are.
C1_Idempotent ==
    call.fetched =>
        \A later \in now..MaxNow :
            \E again \in {process_csv_for_date(call.response,
                                                [posts |-> posts, dirs |-> dirs], later)} :
                /\ again.created_count = 0
                /\ again.posts = posts

\* the post files that exist when item k of the log reaches create_blog_post
ExistsAt(c, k) ==
    c.before \cup {c.log[j].path : j \in {i \in 1..(k - 1) : c.log[i].result = "created"}}

\* C2: write-if-absent.  No step changes or removes an existing post file, and a
\* create_blog_post call whose target file exists returns False (the SKIP 'already
\* exists').
C2_WriteIfAbsent ==
    [][/\ \A f \in DOMAIN posts : f \in DOMAIN posts' /\ posts'[f] = posts[f]
       /\ (call'.fetched /\ ~call.fetched) =>
            \A k \in DOMAIN call'.log :
                call'.log[k].path \in ExistsAt(call', k) => call'.log[k].result = "exists"]_vars

C2_Witness ==
    /\ call.fetched
    /\ \E k \in DOMAIN call.log :
        /\ call.log[k].result = "exists"
        /\ call.log[k].path \in call.before

NonEmpty(v) == v # None /\ v # <<>>
NonBlank(v) == v # None /\ Strip(v) # <<>>
Parseable(v) == v # None /\ fromisoformat(Strip(v)) # ValueError

\* the path create_blog_post derives from a row's title and date
RowPath(row, clock) ==
    FilePath([title |-> Strip(row.Title), published_date |-> Strip(row.PublishedDate)], clock)

\* the header of the file records the row's title and link
Records(content, row) ==
    \E metadata \in {parse_post_metadata(content)} :
        /\ metadata[<<"title">>] = EscapeQuotes(Strip(row.Title))
        /\ metadata[<<"link">>] = Strip(row.Link)

\* a post file was at the row's path before row i of the fetched feed was processed
Duplicate(i) ==
    \/ RowPath(CallRows[i], call.clock) \in call.before
    \/ \E k \in DOMAIN call.log :
        /\ call.log[k].row_num < i
        /\ call.log[k].result = "created"
        /\ call.log[k].path = RowPath(CallRows[i], call.clock)

\* C3 as stated: after a feed is processed, every row with non-empty Title, Link, Summary
\* and AI Category and a parseable Published Date that is no duplicate has a post file
\* whose header records its title and link.
C3_EveryNonEmptyRowMaterialized ==
    call.fetched =>
        \A i \in DOMAIN CallRows :
            ( /\ NonEmpty(CallRows[i].Title) /\ NonEmpty(CallRows[i].Link)
              /\ NonEmpty(CallRows[i].Summary) /\ NonEmpty(CallRows[i].AICategory)
              /\ Parseable(CallRows[i].PublishedDate)
              /\ ~Duplicate(i) )
            => \E f \in DOMAIN posts : Records(posts[f], CallRows[i])

WellFormed(row) ==
    /\ ~row.extra
    /\ NonBlank(row.Title) /\ NonBlank(row.Link)
    /\ NonBlank(row.Summary) /\ NonBlank(row.AICategory)
    /\ Parseable(row.PublishedDate)

\* C3 amended: after a feed is processed, every row that has no more fields than the
\* header, whose Title, Link, Summary and AI Category are non-empty after stripping
\* whitespace and whose Published Date parses has a post file at its date directory
\* and slug; when the row is no duplicate, that file's header records its title and link.
C3_EveryValidRowMaterialized ==
    call.fetched =>
        \A i \in DOMAIN CallRows :
            WellFormed(CallRows[i]) =>
                /\ RowPath(CallRows[i], call.clock) \in DOMAIN posts
                /\ ~Duplicate(i) =>
                        Records(posts[RowPath(CallRows[i], call.clock)], CallRows[i])

C3_Witness ==
    /\ call.fetched
    /\ \E i \in DOMAIN CallRows :
        /\ i > 1
        /\ WellFormed(CallRows[i])
        /\ ~Duplicate(i)
        /\ Records(posts[RowPath(CallRows[i], call.clock)], CallRows[i])

\* missing, empty or whitespace-only
Blank(v) == v = None \/ Strip(v) = <<>>
\* empty or whitespace-only
EmptyOrBlank(v) == v # None /\ Strip(v) = <<>>

InvalidRow(row) ==
    \/ Blank(row.Title) \/ Blank(row.Link) \/ Blank(row.PublishedDate)
    \/ EmptyOrBlank(row.Summary) \/ EmptyOrBlank(row.AICategory)

\* C4: invalid rows never produce a post file.  No post file was written from a row
\* whose Title, Link or Published Date is missing, empty or whitespace-only or whose
\* Summary or AI Category is empty or whitespace-only, and no such row of a fetched feed
\* is reported as created.
C4_InvalidRowsSkipped ==
    /\ DOMAIN origin = DOMAIN posts
    /\ \A f \in DOMAIN origin : ~InvalidRow(origin[f])
    /\ call.fetched =>
        \A k \in DOMAIN call.log :
            InvalidRow(CallRows[call.log[k].row_num]) => call.log[k].result # "created"

C4_Witness ==
    /\ call.fetched
    /\ Len(CallRows) = 2
    /\ InvalidRow(CallRows[1])
    /\ \E k \in DOMAIN call.log : call.log[k].row_num = 2 /\ call.log[k].result = "created"

\* the buttons of one kind in the template file, by their link targets: the text
\* between the opening piece of a button line and the piece that follows the target
ButtonTargets(tmpl, kind) ==
    LET text == tmpl.content
        open == IF kind = "categories" THEN CategoryOpen ELSE SourceOpen
        mid == IF kind = "categories" THEN CategoryMid ELSE SourceMid
    IN {SubSeq(text, i + 1,
               (CHOOSE j \in (i + 1)..Len(text) :
                    text[j] = mid /\ \A k \in (i + 1)..(j - 1) : text[k] # mid) - 1) :
            i \in {n \in DOMAIN text :
                        text[n] = open /\ \E j \in (n + 1)..Len(text) : text[j] = mid}}

\* C5: after an invocation has ended normally, when the template file exists and the
\* posts directory holds a post with a category or a source tag, the category and
\* source buttons of the template are those of the categories and sources found in
\* the posts directory.
C5_FiltersFollowCorpus ==
    ( /\ pc = "done"
      /\ template.exists
      /\ scan_existing_posts(posts).categories \cup scan_existing_posts(posts).sources # {} )
    => /\ ButtonTargets(template, "categories")
            = {CatPrefix \o c : c \in scan_existing_posts(posts).categories}
       /\ ButtonTargets(template, "sources") = scan_existing_posts(posts).sources

\* the stage of the pipeline an invocation is in
Stage(p) ==
    CASE p \in {"loop", "returned"} -> 1
      [] p = "filters" -> 2
      [] p = "done" -> 3
      [] OTHER -> 0

\* C6: pipeline order.  Within an invocation fetches and post-file writes happen only
\* before the corpus scan, the scan follows the last date, the template is written only
\* after the scan, no stage is gone back to, and every post created in the invocation
\* has its category and its source tag among those handed to update_filters_template.
C6_PipelineOrder ==
    [][/\ (posts' # posts \/ dirs' # dirs \/ (call'.fetched /\ call' # call)) => pc = "loop"
       /\ (scanned' # scanned /\ pc' # "idle") =>
            pc = "loop" /\ dates_to_process = <<>> /\ pc' = "filters"
       /\ template' # template => pc = "filters"
       /\ (Stage(pc) >= 1 /\ pc' # "idle") => Stage(pc') >= Stage(pc)
       /\ pc' = "filters" =>
            \A f \in DOMAIN posts' \ pre_run' :
                /\ posts'[f].category \in scanned'.categories
                /\ posts'[f].tags # <<>> => posts'[f].tags \in scanned'.sources]_vars

C6_Witness ==
    /\ pc = "filters"
    /\ total_created > 0
    /\ \E f \in DOMAIN posts \ pre_run : posts[f].tags # <<>>

\* the content is the one create_blog_post writes for the row, at some clock value
ContentOf(content, row) ==
    \E t \in 0..MaxNow : content = FileContent(BlogPostItem(row), t)

C8_Terminates == (pc \in {"loop", "returned", "filters"}) ~> (pc \in {"done", "exit"})

C8_Witness ==
    /\ pc = "done"
    /\ exit_code = 0
    /\ total_processed > total_created

FetchFailed(c) == c.fetched /\ (c.response = Raise \/ NoData(c.response))

\* C9: a failed fetch is contained.  When fetch_csv_data raises or returns empty or
\* whitespace-only data, process_csv_for_date returns (0, 0) and leaves the posts
\* directory as it is; generate adds nothing to its totals, goes on with the remaining
\* dates and ends with exit code 0 (exit code 1 comes from the arguments alone).
C9_FetchFailureContained ==
    [][/\ (FetchFailed(call') /\ ~call.fetched) =>
            /\ call'.created = 0 /\ call'.processed = 0
            /\ posts' = posts /\ dirs' = dirs
            /\ pc' = "returned"
       /\ (FetchFailed(call) /\ ~call'.fetched) =>
            /\ pc' = "loop"
            /\ dates_to_process' = Tail(dates_to_process)
            /\ total_created' = total_created /\ total_processed' = total_processed
       /\ pc' = "done" => exit_code' = 0
       /\ (pc' = "exit" /\ pc # "exit") => pc = "idle"]_vars

C9_Witness ==
    /\ pc = "returned"
    /\ FetchFailed(call)
    /\ Len(dates_to_process) > 1

\* the positions of the rows BlogPostItem accepts
ValidRows(rows) == {i \in DOMAIN rows : BlogPostItem(rows[i]) # ValidationError}

\* the feed has no column for one of the required fields
LacksColumn(rows) ==
    /\ rows # <<>>
    /\ \/ \A i \in DOMAIN rows : rows[i].Title = None
       \/ \A i \in DOMAIN rows : rows[i].Link = None
       \/ \A i \in DOMAIN rows : rows[i].PublishedDate = None

\* C10: parse_csv_to_objects returns exactly the rows that pass BlogPostItem, in feed
\* order, and the empty list for None, empty, whitespace-only or header-only input and
\* for a feed without one of the required columns.
C10_ParseKeepsValidRowsInOrder ==
    /\ parse_csv_to_objects(NoneData) = <<>>
    /\ parse_csv_to_objects(EmptyText) = <<>>
    /\ parse_csv_to_objects(BlankText) = <<>>
    /\ parse_csv_to_objects(Csv(<<>>)) = <<>>
    /\ (call.fetched /\ LacksColumn(CallRows)) => parse_csv_to_objects(call.response) = <<>>
    /\ (call.fetched /\ call.response # Raise) =>
        \E items \in {parse_csv_to_objects(call.response)} :
            /\ {items[k].row_num : k \in DOMAIN items} = ValidRows(CallRows)
            /\ \A k \in DOMAIN items :
                /\ items[k].item = BlogPostItem(CallRows[items[k].row_num])
                /\ k > 1 => items[k - 1].row_num < items[k].row_num
            /\ call.processed = Len(items)
            /\ \A k \in DOMAIN call.log : call.log[k].row_num = items[k].row_num

C10_Witness ==
    /\ call.fetched
    /\ Len(CallRows) = 2
    /\ ValidRows(CallRows) = {2}
    /\ call.processed = 1

\* r is v without the whitespace at its two ends
Stripped(v, r) ==
    \E i \in 1..(Len(v) + 1), j \in 0..Len(v) :
        /\ r = SubSeq(v, i, j)
        /\ \A k \in 1..(i - 1) : IsSpace(v[k])
        /\ \A k \in (j + 1)..Len(v) : IsSpace(v[k])
        /\ r # <<>> => ~IsSpace(r[1]) /\ ~IsSpace(r[Len(r)])

\* the field of the item for an optional field given as v
OptionalIs(v, r) == IF v = None THEN r = <<>> ELSE Stripped(v, r)

\* C11: BlogPostItem(**row_data) with named fields fails exactly when Title, Link or
\* Published Date is missing, empty or whitespace-only; the item it returns holds every
\* field without its leading and trailing whitespace, and the empty string for an
\* optional field that was missing or None.
C11_BlogPostItemFields ==
    fn = "BlogPostItem" =>
        /\ (ret = ValidationError) <=>
                (Blank(arg.Title) \/ Blank(arg.Link) \/ Blank(arg.PublishedDate))
        /\ ret # ValidationError =>
            /\ Stripped(arg.Title, ret.title)
            /\ Stripped(arg.Link, ret.link)
            /\ Stripped(arg.PublishedDate, ret.published_date)
            /\ OptionalIs(arg.Summary, ret.summary)
            /\ OptionalIs(arg.AICategory, ret.ai_category)
            /\ OptionalIs(arg.SourceName, ret.source_name)
            /\ OptionalIs(arg.SourceURL, ret.source_url)
            /\ OptionalIs(arg.Author, ret.author)

C11_Witness ==
    /\ fn = "BlogPostItem"
    /\ ret # ValidationError
    /\ arg.Title = <<" ", "a", " ", "b", " ">>
    /\ ret.title = <<"a", " ", "b">>
    /\ arg.Summary = None
    /\ arg.Author = <<" ", "a", " ", "b", " ">>

\* v has a character that is no whitespace
HasText(v) == \E i \in DOMAIN v : ~IsSpace(v[i])

\* C12: is_valid_to_save(item) is True exactly when item.ai_category and item.summary
\* are both non-empty after stripping whitespace.
C12_ValidToSave ==
    fn = "is_valid_to_save" =>
        (ret <=> (HasText(arg.ai_category) /\ HasText(arg.summary)))

C12_Witness ==
    /\ fn = "is_valid_to_save"
    /\ ret = FALSE
    /\ HasText(arg.ai_category)
    /\ arg.summary = <<" ">>

\* C13: for every title, slugify returns at most 75 characters, each of them a
\* lowercase letter, a digit, an underscore or a hyphen (so no whitespace and no '<'
\* or '>'), with no two hyphens in a row.
C13_SlugUrlSafe ==
    fn = "slugify" =>
        /\ Len(ret) <= SlugMax
        /\ \A i \in DOMAIN ret : ret[i] \in Lowers \cup Digits \cup {"_", "-"}
        /\ \A i \in 1..(Len(ret) - 1) : ~(ret[i] = "-" /\ ret[i + 1] = "-")

\* the lines of the metadata block and the body of a post file
HeaderKeys == {"title", "slug", "date", "tags", "category", "link", "description"}

\* the day of the row's Published Date, or the day of the call when that is later
RowDay(row, clock) ==
    IF fromisoformat(Strip(row.PublishedDate)).tick > clock THEN clock
    ELSE fromisoformat(Strip(row.PublishedDate)).tick

C15_SaveCounts ==
    /\ \E r \in {save_items_to_files(<<>>, [posts |-> posts, dirs |-> dirs], now)} :
        /\ r.created_count = 0
        /\ r.processed_count = 0
        /\ r.posts = posts
    /\ (call.fetched /\ call.response # Raise) =>
        /\ call.processed = Len(parse_csv_to_objects(call.response))
        /\ 0 <= call.created
        /\ call.created <= call.processed
        /\ call.before \subseteq DOMAIN posts
        /\ call.created = Cardinality(DOMAIN posts \ call.before)

C15_Witness ==
    /\ call.fetched
    /\ call.processed = 2
    /\ call.created = 1
    /\ Cardinality(DOMAIN posts \ call.before) = 1
    /\ \E k \in DOMAIN call.log : call.log[k].result = "invalid"

\* C16: when exactly one of --start-date and --offset-days is given, generate exits
\* with code 1, and no feed is fetched and no post file created.
C16_BothOrNeither ==
    [][\A dates \in DateArgs, start_date \in StartArgs, offset_days \in OffsetArgs :
        ( /\ (start_date = NoArg) # (offset_days = NoArg)
          /\ generate(dates, start_date, offset_days) )
        => /\ pc' = "exit"
           /\ exit_code' = 1
           /\ dates_to_process' = <<>>
           /\ posts' = posts]_vars

\* the first day of the range of offset n from day d
FirstDay(d, n) == IF n >= 0 THEN d ELSE d + n

\* C17: with --start-date d and --offset-days n, generate goes through the |n| + 1
\* days from d to d + n (n >= 0) or from d - |n| to d (n < 0), in ascending order:
\* each fetch is for the first date left, and that date is then taken off the list.
C17_DateRange ==
    [][/\ \A dates \in DateArgs, start_date \in StartArgs \ {NoArg, BadDate},
            offset_days \in OffsetArgs \ {NoArg} :
            generate(dates, start_date, offset_days) =>
                /\ pc' = "loop"
                /\ Len(dates_to_process')
                     = (IF offset_days.n >= 0 THEN offset_days.n ELSE -offset_days.n) + 1
                /\ \A i \in DOMAIN dates_to_process' :
                    dates_to_process'[i]
                        = Day(FirstDay(start_date.day, offset_days.n) + (i - 1))
                /\ \E i \in DOMAIN dates_to_process' :
                    dates_to_process'[i] = start_date
       /\ (call'.fetched /\ ~call.fetched) =>
            /\ call'.date = Head(dates_to_process)
            /\ dates_to_process' = dates_to_process
       /\ call.fetched =>
            /\ ~call'.fetched
            /\ dates_to_process' = Tail(dates_to_process)
       /\ (~call.fetched /\ ~call'.fetched /\ pc = "loop" /\ pc' # "idle") =>
            \/ dates_to_process' = dates_to_process
            \/ /\ ~IsDateFormat(Head(dates_to_process))
               /\ dates_to_process' = Tail(dates_to_process)
       /\ pc' = "filters" => dates_to_process = <<>>]_vars

C17_Witness ==
    /\ call.fetched
    /\ call.date = Day(-1)
    /\ dates_to_process = <<Day(-1), Day(0)>>

\* the variables of one invocation are as a new process has them
FreshLocals ==
    /\ total_created = 0
    /\ total_processed = 0
    /\ call = NoCall
    /\ scanned = NoScan
    /\ dates_to_process = <<>>

ItemDay(item, clock) ==
    IF fromisoformat(item.published_date).tick > clock THEN clock
    ELSE fromisoformat(item.published_date).tick

\* C19: after a create_blog_post call on an item whose Published Date parses, the
\* item's date directory exists, whether the call wrote the post or skipped it.
C19_DateDirectoryExists ==
    (fn = "create_blog_post" /\ fromisoformat(arg.item.published_date) # ValueError) =>
        /\ ret.result \in {"created", "exists", "invalid"}
        /\ DateStr(ItemDay(arg.item, arg.clock)) \in ret.dirs
        /\ arg.fs.dirs \subseteq ret.dirs

C19_Witness ==
    /\ fn = "create_blog_post"
    /\ ret.result = "invalid"
    /\ arg.fs = NoFiles
    /\ ret.posts = <<>>
    /\ ret.dirs # {}

\* C20: the 'Skipped: ... existing posts' figure of the summary, total_processed -
\* total_created, is the number of items of the invocation that were not written
\* because their post file already existed.
C20_SkippedAreExisting ==
    pc \in {"filters", "done"} => total_processed - total_created = total_existing

Expected(dates) ==
    [i \in DOMAIN dates |->
        [date |-> dates[i], what |-> IF IsDateFormat(dates[i]) THEN "fetch" ELSE "error"]]

\* C22: explicit-dates mode.  The loop goes through the positional dates as given; a
\* date that is not in YYYY-MM-DD format gets the error message, with no fetch and no
\* change to the files or the totals; when the loop is over every other date has been
\* fetched for, in the order of the command line, and the run ends with exit code 0.
C22_InvalidDateSkipped ==
    [][/\ \A dates \in DateArgs \ {<<>>} :
            generate(dates, NoArg, NoArg) =>
                /\ pc' = "loop"
                /\ given' = dates
                /\ dates_to_process' = dates
                /\ trail' = <<>>
       /\ (pc = "loop" /\ dates_to_process # <<>> /\ ~IsDateFormat(Head(dates_to_process))
           /\ dates_to_process' # dates_to_process) =>
            /\ trail' = Append(trail, [date |-> Head(dates_to_process), what |-> "error"])
            /\ call' = call /\ ~call.fetched
            /\ posts' = posts /\ dirs' = dirs
            /\ total_created' = total_created /\ total_processed' = total_processed
            /\ pc' = "loop"
       /\ (call'.fetched /\ ~call.fetched) =>
            /\ IsDateFormat(call'.date)
            /\ trail' = Append(trail, [date |-> call'.date, what |-> "fetch"])
       /\ pc' = "filters" => trail' = Expected(given')
       /\ pc' = "done" => /\ exit_code' = 0
                          /\ trail' = Expected(given')]_vars

C22_Witness ==
    /\ pc = "done"
    /\ exit_code = 0
    /\ given = <<Day(1), BadDate, Day(0)>>
    /\ trail = <<[date |-> Day(1), what |-> "fetch"], [date |-> BadDate, what |-> "error"],
                 [date |-> Day(0), what |-> "fetch"]>>
    /\ total_created > 0

\* the sequence without its element n
RemoveAt(seq, n) == [i \in 1..(Len(seq) - 1) |-> IF i < n THEN seq[i] ELSE seq[i + 1]]

\* the log line without the position of the row in the feed
Outcome(line) == [result |-> line.result, path |-> line.path]

\* C23: per-item error isolation.  When create_blog_post raises for an item of a feed,
\* the item is counted as processed and not as created, no post file is written for
\* it, and the files, the directories, the created count and what becomes of every
\* other item are what they are for the feed without that item's row, whose processed
\* count is one less.
C23_ErrorIsolated ==
    [][(call'.fetched /\ ~call.fetched) =>
        \A k \in DOMAIN call'.log :
            call'.log[k].result = "error" =>
                \E without \in {process_csv_for_date(
                                    Csv(RemoveAt(call'.response.rows, call'.log[k].row_num)),
                                    [posts |-> posts, dirs |-> dirs], now)} :
                    /\ call'.log[k].path = NoPath
                    /\ call'.processed = Len(call'.log)
                    /\ call'.created
                         = Cardinality({j \in DOMAIN call'.log : call'.log[j].result = "created"})
                    /\ without.posts = posts'
                    /\ without.dirs = dirs'
                    /\ without.created_count = call'.created
                    /\ without.processed_count = call'.processed - 1
                    /\ Len(without.log) = Len(call'.log) - 1
                    /\ \A j \in DOMAIN without.log :
                        Outcome(without.log[j])
                            = Outcome(call'.log[IF j < k THEN j ELSE j + 1])]_vars

C23_Witness ==
    /\ call.fetched
    /\ CallRows = <<RowBadDate, RowOk>>
    /\ call.log[1].result = "error"
    /\ call.log[2].result = "created"
    /\ call.processed = 2
    /\ call.created = 1
    /\ DOMAIN posts \ call.before = {call.log[2].path}

\* C24: header round trip.  Whenever a step writes post files, parse_post_metadata
\* recovers from the header of each new file the lowercased AI Category and the source
\* tag of the item it was written from, and scan_existing_posts of the posts directory
\* as it is then returns a category set with the category of every post and a source
\* set with every non-empty source tag.
C24_HeaderRoundTrip ==
    [][posts' # posts =>
        \E found \in {scan_existing_posts(posts')} :
            /\ \A f \in DOMAIN posts' \ DOMAIN posts :
                \E item \in {BlogPostItem(origin'[f])},
                   metadata \in {parse_post_metadata(posts'[f])} :
                    /\ {<<"category">>, <<"tags">>} \subseteq DOMAIN metadata
                    /\ metadata[<<"category">>] = Lower(item.ai_category)
                    /\ metadata[<<"tags">>] = SourceTags(item.source_name)
            /\ \A f \in DOMAIN posts' :
                \E item \in {BlogPostItem(origin'[f])} :
                    /\ Lower(item.ai_category) \in found.categories
                    /\ SourceTags(item.source_name) # <<>> =>
                            SourceTags(item.source_name) \in found.sources]_vars

C24_Witness ==
    /\ \E f, g \in DOMAIN posts :
        /\ origin[f] = RowSoon
        /\ parse_post_metadata(posts[f])[<<"category">>] = <<"a", ":", "b">>
        /\ parse_post_metadata(posts[f])[<<"tags">>] = <<"s", "-", "b">>
        /\ origin[g] = RowSameSlug
        /\ parse_post_metadata(posts[g])[<<"tags">>] = <<>>
    /\ scan_existing_posts(posts).categories = {<<"a", ":", "b">>, <<"n", "_", "c">>}
    /\ scan_existing_posts(posts).sources = {<<"s", "-", "b">>}

\* the text holds one of the two placeholders
HasPlaceholder(text) ==
    \E i \in DOMAIN text :
        OccursAt(text, DYNAMIC_CATEGORIES, i) \/ OccursAt(text, DYNAMIC_SOURCES, i)

C26_MissingTemplateLeftAlone ==
    [][~template.exists =>
        /\ template' = template
        /\ pc = "filters" => posts' = posts /\ dirs' = dirs]_vars

C26_Witness ==
    /\ pc = "done"
    /\ ~template.exists
    /\ template = NoTemplate
    /\ scanned.categories # {}
    /\ scanned.sources # {}

\* C27: when the corpus scan has found neither a category nor a source, which is the
\* case when the posts directory holds no post file, generate does not call
\* update_filters_template: the template file keeps its content, placeholders
\* included, and the run ends normally.
C27_NoFiltersWithoutPosts ==
    [][/\ pc' = "filters" =>
            /\ scanned' = scan_existing_posts(posts)
            /\ posts = <<>> => scanned' = NoScan
       /\ (pc = "filters" /\ scanned.categories = {} /\ scanned.sources = {}) =>
            /\ template' = template
            /\ pc' = "done"]_vars

C27_Witness ==
    /\ pc = "done"
    /\ scanned = NoScan
    /\ posts = <<>>
    /\ total_processed > 0
    /\ template = FreshTemplate

\* text.split('\n') of a text of button lines, no line for the empty text
ButtonLines(text) ==
    LET breaks == SelectSeq([i \in 1..Len(text) |-> i], LAMBDA i : text[i] = Newline)
        from == <<0>> \o breaks
        to == breaks \o <<Len(text) + 1>>
    IN IF text = <<>> THEN <<>>
       ELSE [k \in 1..(Len(breaks) + 1) |-> SubSeq(text, from[k] + 1, to[k] - 1)]

\* the number of elements of the set that sort before name
Rank(names, name) == Cardinality({other \in names : StrLess(other, name)})

\* the display name derived from an identifier: sep becomes a blank, every letter
\* that follows a letter is lower case and every other letter upper case
Derived(name, sep, shown) ==
    /\ Len(shown) = Len(name)
    /\ \A i \in DOMAIN name :
        IF name[i] = sep THEN shown[i] = " "
        ELSE IF i > 1 /\ name[i - 1] \in Lowers \cup Uppers
             THEN shown[i] = LowerChar(name[i])
             ELSE shown[i] = UpperChar(name[i])

\* C28: generate_category_buttons and generate_source_buttons return one button line
\* per element of the set, the line of an element at the position of the element in
\* ascending order, with the element in the link target; an element the static
\* mapping lacks has the display name derived from it, an element of the mapping the
\* name the mapping gives.
C28_OneButtonPerElement ==
    /\ fn = "generate_category_buttons" =>
        \E lines \in {ButtonLines(ret)} :
            /\ Len(lines) = Cardinality(arg)
            /\ \A category \in arg :
                \E shown \in {CategoryDisplay(category)} :
                    /\ lines[Rank(arg, category) + 1]
                         = <<CategoryOpen>> \o CatPrefix \o category \o <<CategoryMid>>
                                \o shown \o <<AnchorEnd>>
                    /\ category = General => shown = <<"G", "e", "n", "e", "r", "a", "l">>
                    /\ category \notin {General, Event} => Derived(category, "_", shown)
    /\ fn = "generate_source_buttons" =>
        \E lines \in {ButtonLines(ret)} :
            /\ Len(lines) = Cardinality(arg)
            /\ \A source \in arg :
                \E shown \in {SourceDisplay(source)} :
                    /\ lines[Rank(arg, source) + 1]
                         = <<SourceOpen>> \o source \o <<SourceMid>> \o shown \o <<AnchorEnd>>
                    /\ source = AwsBlog => shown = <<"A", "W", "S", " ", "B", "l", "o", "g">>
                    /\ source # AwsBlog => Derived(source, "-", shown)

C28_Witness ==
    /\ fn = "generate_category_buttons"
    /\ arg = {General, Event, <<"n", "_", "c">>}
    /\ Len(ButtonLines(ret)) = 3
    /\ ButtonLines(ret)[3] = <<CategoryOpen, "c", "a", "t", "_", "n", "_", "c", CategoryMid,
                               "N", " ", "C", AnchorEnd>>
    /\ ButtonLines(ret)[1][6] = "e"

====
